---- MODULE Spec2Model ----
(***************************************************************************)
(* State-machine model of esp-idf-hal's task notification / yield dispatch *)
(* layer (src/src/task.rs) and of its one-shot ADC reader with lazy        *)
(* calibration (src/src/adc.rs).                                           *)
(*                                                                         *)
(* The two subsystems share no state; TaskSpec exercises the first and     *)
(* AdcSpec the second.  ChannelSpec exercises ChannelDriver, ConvSpec the  *)
(* linear conversion over its whole input range, LookupSpec get_max_mv.    *)
(* The FreeRTOS and ADC vendor primitives the code calls through FFI are   *)
(* modelled by their documented contracts.                                 *)
(***************************************************************************)
EXTENDS Integers, Sequences, FiniteSets, TLC

VARIABLES
    chip,             \* build target: cfg(esp32 / esp32s2 / esp32s3 / esp32c3)
    idfMajor,         \* build target: cfg(esp_idf_version_major = ..)
    isrYielder,       \* interrupt::get_isr_yielder().is_some()
    ulNotifiedValue,  \* the waiter task's notification word
    ucNotifyState,    \* the waiter task's notification state
    pc,               \* where the waiter task is inside wait_notification
    caller,           \* which entry point the waiter task is running
    waitTicks,        \* xTicksToWait of the wait in progress
    lastRet,          \* what the last wait_notification call returned
    lastOp,           \* the last wrapper call and the primitives it invoked
    sentBits,         \* history: bit positions notified since the last consumption
    sentAny,          \* history: notify was called since the last consumption
    waitHist,         \* history: what happened during the wait in progress
    adc,              \* the AdcDriver (Reader Handle), once created
    adcWidth,         \* the width last programmed by adc1_config_width
    lastRead,         \* the last AdcDriver call, the vendor calls it made, its result
    adcHist,          \* history: per attenuation, characterize calls and successful reads
    channels,         \* per ADC pin, the ChannelDriver (Channel Handle) holding it, if any
    lastChan          \* the last ChannelDriver call, the vendor calls it made, its result

taskVars == <<ulNotifiedValue, ucNotifyState, pc, caller, waitTicks, lastRet,
              lastOp, sentBits, sentAny, waitHist>>

cfgVars == <<chip, idfMajor, isrYielder>>

adcVars == <<adc, adcWidth, lastRead, adcHist>>

chanVars == <<channels, lastChan>>

vars == <<cfgVars, taskVars, adcVars, chanVars>>

-----------------------------------------------------------------------------
(* Bounds *)

\* modelled width of the notification word (u32 in the code)
BitWidth == 3

-----------------------------------------------------------------------------
(* Build targets *)

Chips == {"esp32", "esp32s2", "esp32s3", "esp32c3"}

\* task.rs tells esp32c3 from the rest only: one chip of each kind
TaskChips == {"esp32", "esp32c3"}

\* the esp_idf_version = "4.3" variants differ from the others only in the
\* notification index argument, which is 0
IdfMajors == {4, 5}

-----------------------------------------------------------------------------
(* 32-bit word arithmetic, narrowed to BitWidth bits *)

AllBits == 2 ^ BitWidth - 1

Words == 0 .. AllBits

\* the bit patterns handed to notify: none, each single bit, all of them
NotifyValues == {0, AllBits} \cup {2 ^ i : i \in 0 .. BitWidth - 1}

RECURSIVE BitOr(_, _)
BitOr(a, b) ==
    IF a = 0 THEN b
    ELSE IF b = 0 THEN a
    ELSE (IF a % 2 = 1 \/ b % 2 = 1 THEN 1 ELSE 0) + 2 * BitOr(a \div 2, b \div 2)

RECURSIVE BitAndNot(_, _)
BitAndNot(a, m) ==
    IF a = 0 THEN 0
    ELSE (IF a % 2 = 1 /\ m % 2 = 0 THEN 1 ELSE 0) + 2 * BitAndNot(a \div 2, m \div 2)

-----------------------------------------------------------------------------
(* Timeouts: crate::delay::TickType::from(Option<Duration>) *)

\* portMAX_DELAY, with the tick type narrowed to 16 bits
PortMaxDelay == 2 ^ 16 - 1

Durations == { [some |-> FALSE, ticks |-> 0],
               [some |-> TRUE, ticks |-> 0],
               [some |-> TRUE, ticks |-> 1] }

NoDuration == [some |-> FALSE, ticks |-> 0]

TickTypeFrom(duration) == IF duration.some THEN duration.ticks ELSE PortMaxDelay

-----------------------------------------------------------------------------
(* FreeRTOS task-notification primitives.  Each half of xTaskNotifyWait    *)
(* runs inside one critical section; the task may be blocked in between.   *)

NotifyStates == {"NOT_WAITING", "WAITING", "RECEIVED"}

\* xTaskNotifyWait / xTaskGenericNotifyWait, up to the point of blocking
xTaskNotifyWaitEntry(state, value, ulBitsToClearOnEntry, xTicksToWait) ==
    IF state # "RECEIVED"
    THEN [state |-> "WAITING",
          value |-> BitAndNot(value, ulBitsToClearOnEntry),
          block |-> xTicksToWait > 0]
    ELSE [state |-> state, value |-> value, block |-> FALSE]

\* xTaskNotifyWait / xTaskGenericNotifyWait, after the task runs again
xTaskNotifyWaitExit(state, value, ulBitsToClearOnExit) ==
    [pulNotificationValue |-> value,
     xReturn |-> IF state = "RECEIVED" THEN 1 ELSE 0,
     value |-> IF state = "RECEIVED" THEN BitAndNot(value, ulBitsToClearOnExit)
               ELSE value,
     state |-> "NOT_WAITING"]

\* xTaskGenericNotify / xTaskGenericNotifyFromISR
xTaskGenericNotify(state, value, ulValue, eAction, higherPrio) ==
    LET unblock == state = "WAITING"
        keep == eAction = "eSetValueWithoutOverwrite" /\ state = "RECEIVED"
    IN [state |-> "RECEIVED",
        value |-> CASE eAction = "eSetBits" -> BitOr(value, ulValue)
                    [] eAction = "eIncrement" -> (value + 1) % (AllBits + 1)
                    [] eAction = "eSetValueWithOverwrite" -> ulValue
                    [] eAction = "eSetValueWithoutOverwrite" ->
                           IF keep THEN value ELSE ulValue
                    [] OTHER -> value,
        xReturn |-> IF keep THEN 0 ELSE 1,
        unblock |-> unblock,
        higherPriorityTaskWoken |-> IF unblock /\ higherPrio THEN 1 ELSE 0]

-----------------------------------------------------------------------------
(* do_yield *)

do_yield_always_default(active, yielder, c, v) ==
    IF active
    THEN IF c = "esp32c3" THEN <<"vPortYieldFromISR">>
         ELSE IF v = 4 THEN <<"vPortEvaluateYieldFromISR">>
         ELSE <<"_frxt_setup_switch">>
    ELSE <<"vPortYield">>

\* the primitives do_yield invokes, in order
do_yield(active, yielder, c, v) ==
    IF active
    THEN IF c = "esp32c3"
         THEN IF yielder THEN <<"isr_yielder">> ELSE <<"vPortYieldFromISR">>
         ELSE IF yielder THEN <<"isr_yielder">>
              ELSE IF v = 4 THEN <<"vPortEvaluateYieldFromISR">>
              ELSE IF v = 5 THEN <<"_frxt_setup_switch">>
              ELSE <<>>
    ELSE <<"vPortYield">>

-----------------------------------------------------------------------------
(* wait_notification, wait_any_notification, notify *)

None == [some |-> FALSE, value |-> 0]

Some(v) == [some |-> TRUE, value |-> v]

wait_notification_args_keep == [ulBitsToClearOnEntry |-> 0, ulBitsToClearOnExit |-> 0]

\* the clear masks wait_notification passes to the wait primitive
wait_notification_args == [ulBitsToClearOnEntry |-> 0, ulBitsToClearOnExit |-> AllBits]

wait_notification_result_nonzero(notified, notification) ==
    IF notified /\ notification # 0 THEN Some(notification) ELSE None

\* the Option wait_notification builds from the primitive's outputs
wait_notification_result(notified, notification) ==
    IF notified THEN Some(notification) ELSE None

wait_any_break_on_some(r) == r.some

\* the loop exit test of wait_any_notification
wait_any_break(r) == r.some /\ r.value # 0

notify_action_overwrite == "eSetValueWithOverwrite"

\* the eNotifyAction notify passes to the notify primitive
notify_action == "eSetBits"

notify_calls_always_yield(active, woken, yielder, c, v) ==
    IF active
    THEN <<"xTaskGenericNotifyFromISR">> \o do_yield(active, yielder, c, v)
    ELSE <<"xTaskGenericNotify">>

\* the primitives notify invokes, in order
notify_calls(active, woken, yielder, c, v) ==
    IF active
    THEN <<"xTaskGenericNotifyFromISR">>
         \o (IF woken # 0 THEN do_yield(active, yielder, c, v) ELSE <<>>)
    ELSE <<"xTaskGenericNotify">>

NoOp == [kind |-> "none", active |-> FALSE, woken |-> 0, ret |-> FALSE,
         action |-> "none", calls |-> <<>>]

NoHist == [during |-> FALSE, discarded |-> FALSE]

\* first half of a wait_notification call by the waiter task
WaitEnter(ticks, who) ==
    LET e == xTaskNotifyWaitEntry(ucNotifyState, ulNotifiedValue,
                                  wait_notification_args.ulBitsToClearOnEntry, ticks)
    IN /\ ucNotifyState' = e.state
       /\ ulNotifiedValue' = e.value
       /\ pc' = IF e.block THEN "blocked" ELSE "exit"
       /\ caller' = who
       /\ waitTicks' = ticks
       /\ lastRet' = None
       /\ UNCHANGED <<sentBits, sentAny, lastOp>>

WaitNotificationCall(duration) ==
    /\ pc = "idle"
    /\ WaitEnter(TickTypeFrom(duration), "wait_notification")
    /\ waitHist' = NoHist
    /\ UNCHANGED <<cfgVars, adcVars, chanVars>>

WaitAnyCall ==
    /\ pc = "idle"
    /\ WaitEnter(TickTypeFrom(NoDuration), "wait_any_notification")
    /\ waitHist' = NoHist
    /\ UNCHANGED <<cfgVars, adcVars, chanVars>>

WaitAnyLoop ==
    /\ pc = "loop"
    /\ WaitEnter(TickTypeFrom(NoDuration), "wait_any_notification")
    /\ waitHist' = [waitHist EXCEPT !.during = FALSE]
    /\ UNCHANGED <<cfgVars, adcVars, chanVars>>

\* the tick count of a blocked wait runs out
Timeout ==
    /\ pc = "blocked"
    /\ waitTicks # PortMaxDelay
    /\ pc' = "exit"
    /\ UNCHANGED <<cfgVars, adcVars, chanVars, ulNotifiedValue, ucNotifyState, caller, waitTicks, lastRet,
                   lastOp, sentBits, sentAny, waitHist>>

\* second half of wait_notification, and the caller's use of its result
WaitReturn ==
    /\ pc = "exit"
    /\ LET x == xTaskNotifyWaitExit(ucNotifyState, ulNotifiedValue,
                                    wait_notification_args.ulBitsToClearOnExit)
           r == wait_notification_result(x.xReturn # 0, x.pulNotificationValue)
       IN /\ ucNotifyState' = x.state
          /\ ulNotifiedValue' = x.value
          /\ lastRet' = r
          /\ pc' = IF caller = "wait_any_notification" /\ ~wait_any_break(r)
                   THEN "loop" ELSE "idle"
          /\ sentBits' = IF x.xReturn # 0 THEN {} ELSE sentBits
          /\ sentAny' = IF x.xReturn # 0 THEN FALSE ELSE sentAny
          /\ waitHist' = [waitHist EXCEPT
                            !.discarded = @ \/ (caller = "wait_any_notification"
                                                /\ ~wait_any_break(r))]
    /\ UNCHANGED <<cfgVars, adcVars, chanVars, caller, waitTicks, lastOp>>

BitsOf(n) == {i \in 0 .. BitWidth - 1 : (n \div 2 ^ i) % 2 = 1}

\* notify(task, notification) from task context or from an interrupt handler
Notify(notification, active, higherPrio) ==
    /\ LET n == xTaskGenericNotify(ucNotifyState, ulNotifiedValue, notification,
                                   notify_action, higherPrio)
       IN /\ ucNotifyState' = n.state
          /\ ulNotifiedValue' = n.value
          /\ pc' = IF n.unblock /\ pc = "blocked" THEN "exit" ELSE pc
          /\ lastOp' = [kind |-> "notify", active |-> active,
                        woken |-> IF active THEN n.higherPriorityTaskWoken ELSE 0,
                        ret |-> n.xReturn # 0,
                        action |-> notify_action,
                        calls |-> notify_calls(active, n.higherPriorityTaskWoken,
                                               isrYielder, chip, idfMajor)]
    /\ sentBits' = sentBits \cup BitsOf(notification)
    /\ sentAny' = TRUE
    /\ waitHist' = IF pc \in {"blocked", "exit"}
                   THEN [waitHist EXCEPT !.during = TRUE] ELSE waitHist
    /\ UNCHANGED <<cfgVars, adcVars, chanVars, caller, waitTicks, lastRet>>

\* do_yield() from task context or from an interrupt handler
DoYield(active) ==
    /\ lastOp' = [NoOp EXCEPT !.kind = "do_yield", !.active = active,
                              !.calls = do_yield(active, isrYielder, chip, idfMajor)]
    /\ UNCHANGED <<cfgVars, adcVars, chanVars, ulNotifiedValue, ucNotifyState, pc, caller, waitTicks,
                   lastRet, sentBits, sentAny, waitHist>>

-----------------------------------------------------------------------------
(* ADC: units, attenuations, resolutions, vendor result codes *)

\* adc_unit_t: ADC_UNIT_1, ADC_UNIT_2
Units == {1, 2}

\* adc_atten_t: ADC_ATTEN_DB_0, DB_2_5, DB_6, DB_11
Attens == 0 .. 3

\* config::Resolution, as the bit width, per chip
Resolutions(c) ==
    CASE c = "esp32" -> {9, 10, 11, 12}
      [] c = "esp32s2" -> {13}
      [] OTHER -> {12}

\* esp_err_t values
Esp == [OK |-> 0, FAIL |-> -1, ERR_INVALID_ARG |-> 258, ERR_INVALID_STATE |-> 259,
        ERR_NOT_SUPPORTED |-> 262, ERR_TIMEOUT |-> 263]

\* what adc2_get_raw can report
Adc2Results == {Esp.OK, Esp.FAIL, Esp.ERR_INVALID_ARG, Esp.ERR_INVALID_STATE, Esp.ERR_TIMEOUT}

\* what esp_adc_cal_check_efuse can report
FuseResults == {Esp.OK, Esp.ERR_NOT_SUPPORTED}

\* what adc1_config_width can report
WidthResults == {Esp.OK, Esp.ERR_INVALID_ARG}

\* the samples the converter delivers at a bit width: lowest, middle, highest
RawSamples(bits) == {0, 2 ^ (bits - 1), 2 ^ bits - 1}

\* the reference voltages the calibration fuses may hold
VrefValues == {1000, 1100}

\* Option<esp_adc_cal_characteristics_t>
NoCal == [some |-> FALSE, adc_num |-> 0, atten |-> 0, bit_width |-> 0, vref |-> 0]

\* esp_adc_cal_characterize(adc_num, atten, bit_width, default_vref, &mut cal)
esp_adc_cal_characterize(adc_num, atten, bit_width, default_vref, fuseVref) ==
    [some |-> TRUE, adc_num |-> adc_num, atten |-> atten, bit_width |-> bit_width,
     vref |-> IF fuseVref = 0 THEN default_vref ELSE fuseVref]

\* esp_adc_cal_raw_to_voltage(raw, &cal): the vendor's curve, here a line through
\* zero that reaches the reference voltage at the top of the range
esp_adc_cal_raw_to_voltage(raw, cal) == (raw * cal.vref) \div (2 ^ cal.bit_width - 1)

\* the esp! macro: Ok(()) on ESP_OK, Err(EspError(code)) otherwise
EspIsErr(code) == code # Esp.OK

\* a narrowing to 8 bits in place of 16
AsU8(x) == x % 256

\* `as u16`: the low 16 bits
AsU16(x) == x % 65536

-----------------------------------------------------------------------------
(* AdcDriver *)

MAX_READING(c) == IF c = "esp32s2" THEN 8191 ELSE 4095

\* get_max_mv with the esp32 table used for every chip
get_max_mv_one_table(c, attenuation) ==
    CASE attenuation = 0 -> 950 [] attenuation = 1 -> 1250
      [] attenuation = 2 -> 1750 [] attenuation = 3 -> 2450 [] OTHER -> -1

\* AdcDriver::get_max_mv; -1 stands for the panic on an unknown attenuation
get_max_mv(c, attenuation) ==
    CASE c = "esp32" ->
            (CASE attenuation = 0 -> 950 [] attenuation = 1 -> 1250
               [] attenuation = 2 -> 1750 [] attenuation = 3 -> 2450 [] OTHER -> -1)
      [] c \in {"esp32c3", "esp32s2"} ->
            (CASE attenuation = 0 -> 750 [] attenuation = 1 -> 1050
               [] attenuation = 2 -> 1300 [] attenuation = 3 -> 2500 [] OTHER -> -1)
      [] OTHER ->
            (CASE attenuation = 0 -> 950 [] attenuation = 1 -> 1250
               [] attenuation = 2 -> 1750 [] attenuation = 3 -> 3100 [] OTHER -> -1)

\* Option<[Option<esp_adc_cal_characteristics_t>; 4]>
NoCache == [some |-> FALSE, entries |-> [a \in Attens |-> NoCal]]

EmptyCache == [some |-> TRUE, entries |-> [a \in Attens |-> NoCal]]

NoHandle == [exists |-> FALSE, unit |-> 1, resolution |-> 12, cal_characteristics |-> NoCache]

get_cal_characteristics_no_store(cal_characteristics, unit, resolution, attenuation, fuseRes, fuseVref) ==
    IF cal_characteristics.some
    THEN IF cal_characteristics.entries[attenuation].some
         THEN [err |-> Esp.OK, cal |-> cal_characteristics.entries[attenuation],
               cache |-> cal_characteristics, fuseChecks |-> 0, charCalls |-> 0]
         ELSE IF EspIsErr(fuseRes)
         THEN [err |-> fuseRes, cal |-> NoCal, cache |-> cal_characteristics,
               fuseChecks |-> 1, charCalls |-> 0]
         ELSE [err |-> Esp.OK,
               cal |-> esp_adc_cal_characterize(unit, attenuation, resolution, 0, fuseVref),
               cache |-> cal_characteristics, fuseChecks |-> 1, charCalls |-> 1]
    ELSE [err |-> Esp.OK, cal |-> NoCal, cache |-> cal_characteristics,
          fuseChecks |-> 0, charCalls |-> 0]

\* get_cal_characteristics that answers a failed fuse check with "no calibration"
get_cal_characteristics_fuse_failure_is_none(cal_characteristics, unit, resolution, attenuation, fuseRes, fuseVref) ==
    IF cal_characteristics.some
    THEN IF cal_characteristics.entries[attenuation].some
         THEN [err |-> Esp.OK, cal |-> cal_characteristics.entries[attenuation],
               cache |-> cal_characteristics, fuseChecks |-> 0, charCalls |-> 0]
         ELSE IF EspIsErr(fuseRes)
         THEN [err |-> Esp.OK, cal |-> NoCal, cache |-> cal_characteristics,
               fuseChecks |-> 1, charCalls |-> 0]
         ELSE LET cal == esp_adc_cal_characterize(unit, attenuation, resolution, 0, fuseVref)
              IN [err |-> Esp.OK, cal |-> cal,
                  cache |-> [cal_characteristics EXCEPT !.entries[attenuation] = cal],
                  fuseChecks |-> 1, charCalls |-> 1]
    ELSE [err |-> Esp.OK, cal |-> NoCal, cache |-> cal_characteristics,
          fuseChecks |-> 0, charCalls |-> 0]

get_cal_characteristics_recharacterize(cal_characteristics, unit, resolution, attenuation, fuseRes, fuseVref) ==
    IF cal_characteristics.some
    THEN IF EspIsErr(fuseRes)
         THEN [err |-> fuseRes, cal |-> NoCal, cache |-> cal_characteristics,
               fuseChecks |-> 1, charCalls |-> 0]
         ELSE LET cal == esp_adc_cal_characterize(unit, attenuation, resolution, 0, fuseVref)
              IN [err |-> Esp.OK, cal |-> cal,
                  cache |-> [cal_characteristics EXCEPT !.entries[attenuation] = cal],
                  fuseChecks |-> 1, charCalls |-> 1]
    ELSE [err |-> Esp.OK, cal |-> NoCal, cache |-> cal_characteristics,
          fuseChecks |-> 0, charCalls |-> 0]

\* AdcDriver::get_cal_characteristics: the result, the cache afterwards, and the
\* vendor calls made
get_cal_characteristics(cal_characteristics, unit, resolution, attenuation, fuseRes, fuseVref) ==
    IF cal_characteristics.some
    THEN IF cal_characteristics.entries[attenuation].some
         THEN [err |-> Esp.OK, cal |-> cal_characteristics.entries[attenuation],
               cache |-> cal_characteristics, fuseChecks |-> 0, charCalls |-> 0]
         ELSE IF EspIsErr(fuseRes)
         THEN [err |-> fuseRes, cal |-> NoCal, cache |-> cal_characteristics,
               fuseChecks |-> 1, charCalls |-> 0]
         ELSE LET cal == esp_adc_cal_characterize(unit, attenuation, resolution, 0, fuseVref)
              IN [err |-> Esp.OK, cal |-> cal,
                  cache |-> [cal_characteristics EXCEPT !.entries[attenuation] = cal],
                  fuseChecks |-> 1, charCalls |-> 1]
    ELSE [err |-> Esp.OK, cal |-> NoCal, cache |-> cal_characteristics,
          fuseChecks |-> 0, charCalls |-> 0]

\* raw_to_voltage that converts with the linear table when the entry was not
\* populated before the call, and with the characteristics only afterwards
raw_to_voltage_fallback_first(h, c, measurement, attenuation, fuseRes, fuseVref) ==
    LET g == get_cal_characteristics(h.cal_characteristics, h.unit, h.resolution,
                                     attenuation, fuseRes, fuseVref)
    IN IF EspIsErr(g.err)
       THEN [outcome |-> "Other", value |-> g.err, conv |-> "none", g |-> g]
       ELSE IF g.cal.some /\ g.charCalls = 0
       THEN [outcome |-> "Ok", value |-> AsU16(esp_adc_cal_raw_to_voltage(measurement, g.cal)),
             conv |-> "cal", g |-> g]
       ELSE [outcome |-> "Ok",
             value |-> AsU16((measurement * get_max_mv(c, attenuation)) \div MAX_READING(c)),
             conv |-> "linear", g |-> g]

\* AdcDriver::raw_to_voltage, for a measurement in 0 .. MAX_READING
raw_to_voltage(h, c, measurement, attenuation, fuseRes, fuseVref) ==
    LET g == get_cal_characteristics(h.cal_characteristics, h.unit, h.resolution,
                                     attenuation, fuseRes, fuseVref)
    IN IF EspIsErr(g.err)
       THEN [outcome |-> "Other", value |-> g.err, conv |-> "none", g |-> g]
       ELSE IF g.cal.some
       THEN [outcome |-> "Ok", value |-> AsU16(esp_adc_cal_raw_to_voltage(measurement, g.cal)),
             conv |-> "cal", g |-> g]
       ELSE [outcome |-> "Ok",
             value |-> AsU16((measurement * get_max_mv(c, attenuation)) \div MAX_READING(c)),
             conv |-> "linear", g |-> g]

adc2_result_no_would_block(res) ==
    IF res # Esp.OK THEN "Other" ELSE "Ok"

\* how AdcDriver::read treats the result code of adc2_get_raw
adc2_result(res) ==
    IF res = Esp.ERR_INVALID_STATE THEN "WouldBlock"
    ELSE IF res < 0 THEN "Other"
    ELSE "Ok"

\* the record of a call: its arguments (calibration and resolution are those of
\* the Config given to new), the vendor calls it made with their results, and
\* what it returned
NoRead == [kind |-> "none", unit |-> 0, atten |-> 0, calibration |-> FALSE, resolution |-> 0,
           rawRes |-> 0, measurement |-> 0, fuseRes |-> 0,
           rawCalls |-> 0, fuseChecks |-> 0, charCalls |-> 0,
           outcome |-> "none", value |-> 0, conv |-> "none", cal |-> NoCal]

NoAdcHist == [charCount |-> [a \in Attens |-> 0], okRead |-> [a \in Attens |-> FALSE]]

\* what a conversion leaves behind: the cache, the record of the call, the history
Converted(kind, measurement, attenuation, rawRes, fuseRes, fuseVref) ==
    LET v == raw_to_voltage(adc, chip, measurement, attenuation, fuseRes, fuseVref)
    IN /\ adc' = [adc EXCEPT !.cal_characteristics = v.g.cache]
       /\ lastRead' = [NoRead EXCEPT
                          !.kind = kind, !.unit = adc.unit, !.atten = attenuation,
                          !.rawRes = rawRes, !.measurement = measurement,
                          !.fuseRes = fuseRes, !.rawCalls = 1,
                          !.fuseChecks = v.g.fuseChecks, !.charCalls = v.g.charCalls,
                          !.outcome = v.outcome, !.value = v.value, !.conv = v.conv,
                          !.cal = v.g.cal]
       /\ adcHist' = [charCount |-> [adcHist.charCount EXCEPT
                                        ![attenuation] = @ + v.g.charCalls],
                      okRead |-> [adcHist.okRead EXCEPT
                                        ![attenuation] = @ \/ v.outcome = "Ok"]]

\* AdcDriver::new with the width programmed before the fuses are checked
AdcNew_width_first(unit, resolution, calibration, fuseRes, widthRes) ==
    /\ ~adc.exists
    /\ LET widthErr == unit = 1 /\ EspIsErr(widthRes)
           fuseErr == ~widthErr /\ calibration /\ EspIsErr(fuseRes)
       IN /\ adc' = IF fuseErr \/ widthErr THEN adc
                    ELSE [exists |-> TRUE, unit |-> unit, resolution |-> resolution,
                          cal_characteristics |-> IF calibration THEN EmptyCache ELSE NoCache]
          /\ adcWidth' = IF ~widthErr /\ unit = 1 THEN resolution ELSE adcWidth
          /\ lastRead' = [NoRead EXCEPT
                             !.kind = "new", !.unit = unit,
                             !.calibration = calibration, !.resolution = resolution,
                             !.fuseRes = fuseRes,
                             !.fuseChecks = IF calibration /\ ~widthErr THEN 1 ELSE 0,
                             !.outcome = IF fuseErr \/ widthErr THEN "Other" ELSE "Ok",
                             !.value = IF widthErr THEN widthRes
                                       ELSE IF fuseErr THEN fuseRes ELSE 0]
    /\ adcHist' = NoAdcHist
    /\ UNCHANGED <<cfgVars, taskVars, chanVars>>

\* AdcDriver::new(adc, &config)
AdcNew(unit, resolution, calibration, fuseRes, widthRes) ==
    /\ ~adc.exists
    /\ LET fuseErr == calibration /\ EspIsErr(fuseRes)
           widthErr == ~fuseErr /\ unit = 1 /\ EspIsErr(widthRes)
       IN /\ adc' = IF fuseErr \/ widthErr THEN adc
                    ELSE [exists |-> TRUE, unit |-> unit, resolution |-> resolution,
                          cal_characteristics |-> IF calibration THEN EmptyCache ELSE NoCache]
          /\ adcWidth' = IF ~fuseErr /\ ~widthErr /\ unit = 1 THEN resolution ELSE adcWidth
          /\ lastRead' = [NoRead EXCEPT
                             !.kind = "new", !.unit = unit,
                             !.calibration = calibration, !.resolution = resolution,
                             !.fuseRes = fuseRes,
                             !.fuseChecks = IF calibration THEN 1 ELSE 0,
                             !.outcome = IF fuseErr \/ widthErr THEN "Other" ELSE "Ok",
                             !.value = IF fuseErr THEN fuseRes
                                       ELSE IF widthErr THEN widthRes ELSE 0]
    /\ adcHist' = NoAdcHist
    /\ UNCHANGED <<cfgVars, taskVars, chanVars>>

\* OneShot::read(&mut pin) -> AdcDriver::read(unit, channel, atten)
AdcRead(atten, rawRes, sample, fuseRes, fuseVref) ==
    /\ adc.exists
    /\ IF adc.unit = 1
       THEN Converted("read", sample, atten, Esp.OK, fuseRes, fuseVref)
       ELSE LET measurement == IF rawRes = Esp.OK THEN sample ELSE 0
            IN IF adc2_result(rawRes) = "Ok"
               THEN Converted("read", measurement, atten, rawRes, fuseRes, fuseVref)
               ELSE /\ lastRead' = [NoRead EXCEPT
                                       !.kind = "read", !.unit = adc.unit, !.atten = atten,
                                       !.rawRes = rawRes, !.rawCalls = 1,
                                       !.outcome = adc2_result(rawRes),
                                       !.value = IF adc2_result(rawRes) = "Other"
                                                 THEN rawRes ELSE 0]
                    /\ UNCHANGED <<adc, adcHist>>
    /\ UNCHANGED <<cfgVars, taskVars, chanVars, adcWidth>>

\* OneShot::read(&mut hall_sensor) -> AdcDriver::read_hall, on esp32 with ESP-IDF 4
AdcReadHall(sample, fuseRes, fuseVref) ==
    /\ adc.exists
    /\ adc.unit = 1
    /\ chip = "esp32"
    /\ idfMajor = 4
    /\ Converted("read_hall", sample, 0, Esp.OK, fuseRes, fuseVref)
    /\ UNCHANGED <<cfgVars, taskVars, chanVars, adcWidth>>

-----------------------------------------------------------------------------
(* ChannelDriver *)

\* the pins that implement ADCPin: two channels of each unit
Pins == {[unit |-> u, channel |-> c] : u \in Units, c \in {0, 1}}

\* what adc1_config_channel_atten / adc2_config_channel_atten can report
ConfigResults == {Esp.OK, Esp.ERR_INVALID_ARG}

NoChannel == [bound |-> FALSE, atten |-> 0]

NoChan == [kind |-> "none", pin |-> [unit |-> 0, channel |-> 0], atten |-> 0,
           calls |-> <<>>, res |-> 0, outcome |-> "none", value |-> 0]

channel_new_calls_unit1_path(unit, channel, attenuation) ==
    <<[fn |-> "adc1_config_channel_atten", channel |-> channel, atten |-> attenuation]>>

\* the vendor calls of ChannelDriver::new, chosen by T::Adc::unit()
channel_new_calls(unit, channel, attenuation) ==
    IF unit = 1
    THEN <<[fn |-> "adc1_config_channel_atten", channel |-> channel, atten |-> attenuation]>>
    ELSE <<[fn |-> "adc2_config_channel_atten", channel |-> channel, atten |-> attenuation]>>

\* ChannelDriver::<T, ATTEN>::new(pin), ATTEN being one of the four markers of
\* the pin's own unit (ATTEN: Attenuation<T::Adc>) and the pin not held by
\* another driver; res is what the configure call reports
ChannelNew(pin, attenuation, res) ==
    /\ ~channels[pin].bound
    /\ channels' = IF EspIsErr(res) THEN channels
                   ELSE [channels EXCEPT ![pin] = [bound |-> TRUE, atten |-> attenuation]]
    /\ lastChan' = [kind |-> "new", pin |-> pin, atten |-> attenuation,
                    calls |-> channel_new_calls(pin.unit, pin.channel, attenuation),
                    res |-> res,
                    outcome |-> IF EspIsErr(res) THEN "Err" ELSE "Ok",
                    value |-> res]
    /\ UNCHANGED <<cfgVars, taskVars, adcVars>>

\* the ChannelDriver goes out of scope and its PeripheralRef releases the pin
ChannelDrop(pin) ==
    /\ channels[pin].bound
    /\ channels' = [channels EXCEPT ![pin] = NoChannel]
    /\ lastChan' = [NoChan EXCEPT !.kind = "drop", !.pin = pin]
    /\ UNCHANGED <<cfgVars, taskVars, adcVars>>

-----------------------------------------------------------------------------
(* Specifications *)

TaskStart ==
    /\ ulNotifiedValue = 0
    /\ ucNotifyState = "NOT_WAITING"
    /\ pc = "idle"
    /\ caller = "none"
    /\ waitTicks = 0
    /\ lastRet = None
    /\ lastOp = NoOp
    /\ sentBits = {}
    /\ sentAny = FALSE
    /\ waitHist = NoHist

AdcStart ==
    /\ adc = NoHandle
    /\ adcWidth = 0
    /\ lastRead = NoRead
    /\ adcHist = NoAdcHist
    /\ channels = [p \in Pins |-> NoChannel]
    /\ lastChan = NoChan

TaskInit ==
    /\ chip \in TaskChips
    /\ idfMajor \in IdfMajors
    /\ isrYielder \in BOOLEAN
    /\ TaskStart
    /\ AdcStart

TaskNext ==
    \/ \E d \in Durations : WaitNotificationCall(d)
    \/ WaitAnyCall
    \/ WaitAnyLoop
    \/ Timeout
    \/ WaitReturn
    \/ \E b \in NotifyValues, a \in BOOLEAN, h \in BOOLEAN : Notify(b, a, h)
    \/ \E a \in BOOLEAN : DoYield(a)

TaskSpec == TaskInit /\ [][TaskNext]_vars

\* The results of the vendor calls are inputs of a step; a call the code does not
\* make on the path taken has no result to choose.

\* the next conversion at attenuation a will consult the fuses and characterize
NeedsCal(a) == adc.cal_characteristics.some /\ ~adc.cal_characteristics.entries[a].some

FuseInputs(called) == IF called THEN FuseResults ELSE {Esp.OK}

VrefInputs(called) == IF called THEN VrefValues ELSE {0}

WidthInputs(unit) == IF unit = 1 THEN WidthResults ELSE {Esp.OK}

RawResInputs == IF adc.unit = 2 THEN Adc2Results ELSE {Esp.OK}

SampleInputs(res) == IF res = Esp.OK THEN RawSamples(adc.resolution) ELSE {0}

AdcInit ==
    /\ chip \in Chips
    /\ idfMajor \in IdfMajors
    /\ isrYielder = FALSE
    /\ TaskStart
    /\ AdcStart

AdcNext ==
    \/ \E u \in Units, r \in Resolutions(chip), c \in BOOLEAN :
          \E f \in FuseInputs(c), w \in WidthInputs(u) : AdcNew(u, r, c, f, w)
    \/ \E a \in Attens, res \in RawResInputs :
          \E s \in SampleInputs(res), f \in FuseInputs(NeedsCal(a)) :
             \E v \in VrefInputs(NeedsCal(a) /\ f = Esp.OK) : AdcRead(a, res, s, f, v)
    \/ \E s \in RawSamples(adc.resolution), f \in FuseInputs(NeedsCal(0)) :
          \E v \in VrefInputs(NeedsCal(0) /\ f = Esp.OK) : AdcReadHall(s, f, v)

AdcSpec == AdcInit /\ [][AdcNext]_vars

\* The conversion on its own: the initial state holds the arguments, the step
\* applies raw_to_voltage to them on a handle without calibration.
ConvInit ==
    /\ chip \in Chips
    /\ idfMajor = 4
    /\ isrYielder = FALSE
    /\ TaskStart
    /\ adc \in {[exists |-> TRUE, unit |-> 1, resolution |-> r, cal_characteristics |-> NoCache] :
                   r \in {x \in Resolutions(chip) : 2 ^ x - 1 = MAX_READING(chip)}}
    /\ adcWidth = adc.resolution
    /\ adcHist = NoAdcHist
    /\ channels = [p \in Pins |-> NoChannel]
    /\ lastChan = NoChan
    /\ \E a \in Attens, raw \in 0 .. MAX_READING(chip) :
          lastRead = [NoRead EXCEPT !.kind = "input", !.atten = a, !.measurement = raw]

\* AdcDriver::raw_to_voltage(measurement, attenuation) applied to the arguments
RawToVoltage ==
    /\ lastRead.kind = "input"
    /\ Converted("raw_to_voltage", lastRead.measurement, lastRead.atten, Esp.OK, Esp.OK, 0)
    /\ UNCHANGED <<cfgVars, taskVars, chanVars, adcWidth>>

ConvNext == RawToVoltage

ConvSpec == ConvInit /\ [][ConvNext]_vars

\* The lookup on its own, next to the reads that reach it: a handle without
\* calibration exists, a step either reads through the public interface or
\* applies get_max_mv to an attenuation value.

\* adc_atten_t values beyond the four attenuations (ADC_ATTEN_MAX and the next)
OtherAttens == {4, 5}

LookupInit ==
    /\ chip \in Chips
    /\ idfMajor \in IdfMajors
    /\ isrYielder = FALSE
    /\ TaskStart
    /\ adc \in {[exists |-> TRUE, unit |-> u, resolution |-> r, cal_characteristics |-> NoCache] :
                   u \in Units, r \in Resolutions(chip)}
    /\ adcWidth = IF adc.unit = 1 THEN adc.resolution ELSE 0
    /\ lastRead = NoRead
    /\ adcHist = NoAdcHist
    /\ channels = [p \in Pins |-> NoChannel]
    /\ lastChan = NoChan

\* AdcDriver::get_max_mv(attenuation) applied to an attenuation value
GetMaxMv(attenuation) ==
    /\ LET mv == get_max_mv(chip, attenuation)
       IN lastRead' = [NoRead EXCEPT
                          !.kind = "get_max_mv", !.atten = attenuation,
                          !.outcome = IF mv = -1 THEN "Panic" ELSE "Ok",
                          !.value = IF mv = -1 THEN 0 ELSE mv]
    /\ UNCHANGED <<cfgVars, taskVars, chanVars, adc, adcWidth, adcHist>>

LookupNext ==
    \/ \E a \in Attens \cup OtherAttens : GetMaxMv(a)
    \/ \E a \in Attens, res \in RawResInputs :
          \E s \in SampleInputs(res) : AdcRead(a, res, s, Esp.OK, 0)
    \/ \E s \in RawSamples(adc.resolution) : AdcReadHall(s, Esp.OK, 0)

LookupSpec == LookupInit /\ [][LookupNext]_vars

ChannelNext ==
    \/ \E p \in Pins, a \in Attens, r \in ConfigResults : ChannelNew(p, a, r)
    \/ \E p \in Pins : ChannelDrop(p)

ChannelSpec == AdcInit /\ [][ChannelNext]_vars

-----------------------------------------------------------------------------
(* Properties of the notification primitives (TaskSpec) *)

\* the word whose set bits are exactly the positions in S
RECURSIVE WordOf(_)
WordOf(S) ==
    IF S = {} THEN 0
    ELSE LET i == CHOOSE x \in S : TRUE IN 2 ^ i + WordOf(S \ {i})

\* a step in which a wait_notification call returns to its caller
ReturnStep == pc = "exit" /\ pc' # "exit"

IsrYieldPrimitives == {"vPortYieldFromISR", "vPortEvaluateYieldFromISR", "_frxt_setup_switch"}

\* C1: a wait_notification that is notified returns the bitwise OR of the bits
\* of every notify since the word was last consumed: no notify overwrites the
\* bits of an earlier one (0x1 then 0x4 gives 0x5).
C1_NotificationAccumulation ==
    [][ReturnStep /\ lastRet'.some => lastRet'.value = WordOf(sentBits)]_vars

\* 0x1 and 0x4 were both notified before the task called wait_notification,
\* and that one call returned 0x5
C1_Witness ==
    /\ pc = "idle"
    /\ caller = "wait_notification"
    /\ lastRet = Some(5)
    /\ ~waitHist.during

\* C2: a notification delivered since the last consumption, before the wait
\* starts or while it is blocked, is never lost: the state stays "received",
\* the waiter does not stay blocked, and the wait returns Some, not None.
C2_NoMissedWakeup ==
    /\ [](sentAny => ucNotifyState = "RECEIVED" /\ pc # "blocked")
    /\ [][ReturnStep /\ sentAny => lastRet'.some]_vars

\* a wait with a finite timeout was notified while in progress and returned
\* the bits
C2_Witness ==
    /\ pc = "idle"
    /\ caller = "wait_notification"
    /\ waitTicks > 0
    /\ waitTicks # PortMaxDelay
    /\ waitHist.during
    /\ lastRet.some

\* C3: a wait_notification that returns Some leaves the word zero and consumes
\* the pending notification, and it returns Some only if notify was called
\* since the last consumption; it returns None only under a finite timeout,
\* and then leaves the word alone.
C3_ConsumedExactlyOnce ==
    [][ReturnStep =>
          /\ lastRet'.some => (sentAny /\ ~sentAny' /\ ulNotifiedValue' = 0)
          /\ ~lastRet'.some => (waitTicks # PortMaxDelay /\ ulNotifiedValue' = ulNotifiedValue)
      ]_vars

\* a notification was consumed by an earlier wait, and a later wait with no
\* notify in between returned None
C3_Witness ==
    /\ pc = "idle"
    /\ caller = "wait_notification"
    /\ lastOp.kind = "notify"
    /\ ~sentAny
    /\ ulNotifiedValue = 0
    /\ ~lastRet.some

\* C4: wait_any_notification waits indefinitely, returns exactly when the
\* wait_notification it called observed a non-zero pattern, and loops again
\* on a zero-valued wakeup.
C4_WaitAnyDiscardsZero ==
    [][ReturnStep /\ caller = "wait_any_notification" =>
          /\ waitTicks = TickTypeFrom(NoDuration)
          /\ IF sentBits # {}
             THEN pc' = "idle" /\ lastRet'.some /\ lastRet'.value # 0
             ELSE pc' = "loop"
      ]_vars

\* wait_any_notification discarded a zero-valued wakeup and returned after 0x2
C4_Witness ==
    /\ pc = "idle"
    /\ caller = "wait_any_notification"
    /\ waitHist.discarded
    /\ lastRet = Some(2)

\* C5: do_yield in interrupt context invokes exactly one interrupt-path
\* action, the custom yielder if one is installed and a default interrupt
\* yield primitive otherwise; in task context it invokes only vPortYield.
C5_YieldDispatch ==
    lastOp.kind = "do_yield" =>
        IF lastOp.active
        THEN /\ Len(lastOp.calls) = 1
             /\ isrYielder => lastOp.calls[1] = "isr_yielder"
             /\ ~isrYielder => lastOp.calls[1] \in IsrYieldPrimitives
        ELSE lastOp.calls = <<"vPortYield">>

\* do_yield ran in interrupt context with a custom yielder installed
C5_Witness ==
    /\ lastOp.kind = "do_yield"
    /\ lastOp.active
    /\ isrYielder
    /\ lastOp.calls = <<"isr_yielder">>

\* C6: notify in interrupt context calls the FromISR primitive and then
\* yields, on the interrupt path, iff a higher-priority task was woken;
\* notify in task context calls only the task primitive. Both set bits.
C6_NotifyDispatch ==
    lastOp.kind = "notify" =>
        /\ lastOp.action = "eSetBits"
        /\ IF lastOp.active
           THEN /\ lastOp.calls[1] = "xTaskGenericNotifyFromISR"
                /\ Len(lastOp.calls) = (IF lastOp.woken # 0 THEN 2 ELSE 1)
                /\ \A i \in 2 .. Len(lastOp.calls) :
                       lastOp.calls[i] \in IsrYieldPrimitives \cup {"isr_yielder"}
           ELSE lastOp.calls = <<"xTaskGenericNotify">>

\* notify ran in an interrupt handler, woke a higher-priority task and yielded
C6_Witness ==
    /\ lastOp.kind = "notify"
    /\ lastOp.active
    /\ lastOp.woken # 0
    /\ Len(lastOp.calls) = 2

-----------------------------------------------------------------------------
(* Properties of the ADC reader (AdcSpec) *)

ReadKinds == {"read", "read_hall"}

\* C7: a secondary-unit read whose raw read reports ESP_ERR_INVALID_STATE
\* returns WouldBlock after exactly one raw read and no conversion; a
\* primary-unit read never returns WouldBlock.
C7_BusyIsWouldBlock ==
    lastRead.kind = "read" =>
        /\ (lastRead.unit = 2 /\ lastRead.rawRes = Esp.ERR_INVALID_STATE) =>
               /\ lastRead.outcome = "WouldBlock"
               /\ lastRead.rawCalls = 1
               /\ lastRead.conv = "none"
        /\ lastRead.unit = 1 => lastRead.outcome # "WouldBlock"

\* a read on the secondary unit found the hardware busy and returned WouldBlock
C7_Witness ==
    /\ lastRead.kind = "read"
    /\ lastRead.unit = 2
    /\ lastRead.rawRes = Esp.ERR_INVALID_STATE
    /\ lastRead.outcome = "WouldBlock"

\* C8: on the secondary unit every raw-read result code that is neither
\* success nor busy makes read return a hard error carrying that code; a
\* failed raw read never becomes a successful reading.
C8_FailedRawReadIsHardError ==
    (lastRead.kind = "read" /\ lastRead.unit = 2
        /\ lastRead.rawRes \notin {Esp.OK, Esp.ERR_INVALID_STATE}) =>
        /\ lastRead.outcome = "Other"
        /\ lastRead.value = lastRead.rawRes

\* C9: with calibration enabled, characterization runs exactly once per
\* attenuation, in the first successful read at it; a read at an attenuation
\* whose entry is populated checks no fuse, characterizes nothing, leaves the
\* cache alone and converts with the cached characteristics.
C9_CalibrationCacheIdempotence ==
    /\ [](\A a \in Attens :
             /\ adcHist.charCount[a] <= 1
             /\ adcHist.charCount[a] = 1 <=> (adc.cal_characteristics.some /\ adcHist.okRead[a])
             /\ adcHist.charCount[a] = 1 <=> adc.cal_characteristics.entries[a].some)
    /\ [][(/\ lastRead' # lastRead
           /\ lastRead'.kind \in ReadKinds
           /\ lastRead'.outcome = "Ok"
           /\ adc.cal_characteristics.entries[lastRead'.atten].some) =>
              /\ lastRead'.fuseChecks = 0
              /\ lastRead'.charCalls = 0
              /\ lastRead'.conv = "cal"
              /\ lastRead'.cal = adc.cal_characteristics.entries[lastRead'.atten]
              /\ adc' = adc
         ]_vars

\* a later read at 11 dB reused the entry the first one made, after a read at
\* 0 dB had made its own
C9_Witness ==
    /\ lastRead.kind = "read"
    /\ lastRead.atten = 3
    /\ lastRead.outcome = "Ok"
    /\ lastRead.fuseChecks = 0
    /\ lastRead.charCalls = 0
    /\ lastRead.cal = adc.cal_characteristics.entries[3]
    /\ lastRead.cal.some
    /\ adcHist.charCount[3] = 1
    /\ adcHist.charCount[0] = 1

\* C10: a populated calibration entry never changes or empties again, and a
\* step changes at most the entry of the attenuation being read.
C10_CalibrationEntryImmutable ==
    [][adc.exists =>
          \A a \in Attens :
             /\ adc.cal_characteristics.entries[a].some =>
                    adc'.cal_characteristics.entries[a] = adc.cal_characteristics.entries[a]
             /\ adc'.cal_characteristics.entries[a] # adc.cal_characteristics.entries[a] =>
                    (lastRead'.kind \in ReadKinds /\ lastRead'.atten = a)
      ]_vars

\* with the 0 dB and 11 dB entries populated, a read at 6 dB failed its fuse
\* check
C10_Witness ==
    /\ adc.cal_characteristics.entries[0].some
    /\ adc.cal_characteristics.entries[3].some
    /\ ~adc.cal_characteristics.entries[2].some
    /\ lastRead.kind = "read"
    /\ lastRead.atten = 2
    /\ lastRead.outcome = "Other"
    /\ lastRead.fuseChecks = 1

-----------------------------------------------------------------------------
(* Properties of the conversion and of handle creation (AdcSpec, ConvSpec, ChannelSpec) *)

\* C11: without calibration a successful read converts its sample as
\* raw * max_mv(attenuation) / max_raw, max_raw being the highest raw value of
\* the handle's configured resolution; so a sample of zero reads as 0 mV and
\* the highest sample of the resolution reads as max_mv.
C11_LinearConversion ==
    (lastRead.kind = "read" /\ lastRead.outcome = "Ok" /\ ~adc.cal_characteristics.some) =>
        LET max_raw == 2 ^ adc.resolution - 1
            max_mv == get_max_mv(chip, lastRead.atten)
        IN /\ lastRead.conv = "linear"
           /\ lastRead.value = (lastRead.measurement * max_mv) \div max_raw
           /\ lastRead.measurement = 0 => lastRead.value = 0
           /\ lastRead.measurement = max_raw => lastRead.value = max_mv

\* C12: AdcDriver::new with calibration requested and the fuse check failing
\* returns the fuse-check error, makes no handle and leaves the global width
\* as it was; when new succeeds, the handle has a cache, with all four
\* entries empty, exactly when calibration was requested, and the global
\* width was programmed (to the requested resolution) exactly when the unit
\* is the primary one.
C12_ReaderCreation ==
    [][(~adc.exists /\ lastRead'.kind = "new" /\ lastRead' # lastRead) =>
          /\ (lastRead'.calibration /\ lastRead'.fuseRes # Esp.OK) =>
                 /\ lastRead'.outcome = "Other"
                 /\ lastRead'.value = lastRead'.fuseRes
                 /\ ~adc'.exists
                 /\ adcWidth' = adcWidth
          /\ lastRead'.outcome = "Ok" =>
                 /\ adc'.exists
                 /\ adc'.unit = lastRead'.unit
                 /\ adc'.resolution = lastRead'.resolution
                 /\ adc'.cal_characteristics.some <=> lastRead'.calibration
                 /\ \A a \in Attens : ~adc'.cal_characteristics.entries[a].some
                 /\ lastRead'.unit = 1 => adcWidth' = lastRead'.resolution
                 /\ lastRead'.unit # 1 => adcWidth' = adcWidth
          /\ lastRead'.outcome # "Ok" => (~adc'.exists /\ adcWidth' = adcWidth)
      ]_vars

\* new for the primary unit, calibration requested, failed on the fuse check
\* and programmed no width
C12_Witness ==
    /\ lastRead.kind = "new"
    /\ lastRead.unit = 1
    /\ lastRead.calibration
    /\ lastRead.fuseRes = Esp.ERR_NOT_SUPPORTED
    /\ lastRead.outcome = "Other"
    /\ ~adc.exists
    /\ adcWidth = 0

\* C13: ChannelDriver::new makes exactly one configure-channel-attenuation
\* call, adc1_config_channel_atten when the pin's unit is ADC_UNIT_1 and
\* adc2_config_channel_atten otherwise, for the pin's channel and with the
\* marker's attenuation; when that call fails, new returns its error, makes
\* no Channel Handle and does not call again.
C13_ChannelCreation ==
    [][(lastChan' # lastChan /\ lastChan'.kind = "new") =>
          LET p == lastChan'.pin
          IN /\ Len(lastChan'.calls) = 1
             /\ lastChan'.calls[1].fn = IF p.unit = 1 THEN "adc1_config_channel_atten"
                                        ELSE "adc2_config_channel_atten"
             /\ lastChan'.calls[1].channel = p.channel
             /\ lastChan'.calls[1].atten = lastChan'.atten
             /\ lastChan'.res # Esp.OK =>
                    /\ lastChan'.outcome = "Err"
                    /\ lastChan'.value = lastChan'.res
                    /\ channels' = channels
             /\ lastChan'.res = Esp.OK =>
                    /\ lastChan'.outcome = "Ok"
                    /\ channels' = [channels EXCEPT
                                       ![p] = [bound |-> TRUE, atten |-> lastChan'.atten]]
      ]_vars

\* new on a pin of the secondary unit at 6 dB failed in its one configure call
\* and left the pin without a handle, while a pin of the primary unit has one
C13_Witness ==
    /\ lastChan.kind = "new"
    /\ lastChan.pin.unit = 2
    /\ lastChan.atten = 2
    /\ lastChan.calls = <<[fn |-> "adc2_config_channel_atten",
                           channel |-> lastChan.pin.channel, atten |-> 2]>>
    /\ lastChan.outcome = "Err"
    /\ ~channels[lastChan.pin].bound
    /\ \E p \in Pins : p.unit = 1 /\ channels[p].bound

\* the table of full-scale voltages in millivolts, per chip and attenuation
DocumentedMaxMv ==
    [esp32 |-> <<950, 1250, 1750, 2450>>,
     esp32c3 |-> <<750, 1050, 1300, 2500>>,
     esp32s2 |-> <<750, 1050, 1300, 2500>>,
     esp32s3 |-> <<950, 1250, 1750, 3100>>]

C14_WitnessPanic ==
    /\ lastRead.kind = "get_max_mv"
    /\ lastRead.atten \notin Attens
    /\ lastRead.outcome = "Panic"

\* C16 (as stated): on a handle with calibration enabled, a read at an
\* attenuation whose entry is not yet populated converts with the fixed linear
\* table, and the calibrated conversion is applied only when the entry
\* already exists before the read.
C16_FallbackBeforeCaching ==
    (lastRead.kind \in ReadKinds /\ lastRead.outcome = "Ok" /\ adc.cal_characteristics.some) =>
        /\ lastRead.charCalls = 1 => lastRead.conv = "linear"
        /\ lastRead.conv = "cal" => lastRead.charCalls = 0

\* C16 (amended): on a handle with calibration enabled every successful read
\* converts with the calibration characteristics of its attenuation; when the
\* entry is not yet populated the read characterizes first, stores the entry
\* and converts with it.  The linear table is used exactly by the reads of a
\* handle without calibration.
C16_CalibratedFromFirstRead ==
    [][(lastRead' # lastRead /\ lastRead'.kind \in ReadKinds /\ lastRead'.outcome = "Ok") =>
          LET a == lastRead'.atten
          IN /\ adc.cal_characteristics.some =>
                    /\ lastRead'.conv = "cal"
                    /\ lastRead'.cal.some
                    /\ lastRead'.cal = adc'.cal_characteristics.entries[a]
                    /\ lastRead'.value =
                           AsU16(esp_adc_cal_raw_to_voltage(lastRead'.measurement, lastRead'.cal))
                    /\ lastRead'.charCalls =
                           IF adc.cal_characteristics.entries[a].some THEN 0 ELSE 1
             /\ lastRead'.conv = "linear" <=> ~adc.cal_characteristics.some
      ]_vars

\* the first read at 6 dB on a calibration-enabled handle characterized and
\* returned the calibrated value of a non-zero sample, which differs from the
\* linear one
C16_Witness ==
    /\ lastRead.kind = "read"
    /\ lastRead.atten = 2
    /\ adc.cal_characteristics.some
    /\ lastRead.charCalls = 1
    /\ lastRead.outcome = "Ok"
    /\ lastRead.conv = "cal"
    /\ lastRead.measurement > 0
    /\ lastRead.value # (lastRead.measurement * get_max_mv(chip, 2)) \div MAX_READING(chip)

\* the last call was a read whose conversion consulted the fuses and found
\* them failing
FuseFailedRead(r) ==
    r.kind \in ReadKinds /\ r.fuseChecks = 1 /\ r.fuseRes # Esp.OK

\* C17: on a handle with calibration enabled, a read at an attenuation whose
\* entry is empty and whose fuse check fails returns that failure as a hard
\* error (not WouldBlock, not a linear value), does not characterize and
\* leaves every cache entry as it was; the entry is still empty, so the next
\* read at that attenuation that reaches the conversion checks the fuses
\* again.
C17_FailedFuseCheckOnRead ==
    /\ [][(lastRead' # lastRead /\ FuseFailedRead(lastRead')) =>
             /\ adc.cal_characteristics.some
             /\ ~adc.cal_characteristics.entries[lastRead'.atten].some
             /\ lastRead'.outcome = "Other"
             /\ lastRead'.value = lastRead'.fuseRes
             /\ lastRead'.conv = "none"
             /\ lastRead'.charCalls = 0
             /\ adc' = adc
         ]_vars
    /\ [][(/\ FuseFailedRead(lastRead)
           /\ lastRead' # lastRead
           /\ lastRead'.kind \in ReadKinds
           /\ lastRead'.atten = lastRead.atten
           /\ lastRead'.unit = 1 \/ adc2_result(lastRead'.rawRes) = "Ok") =>
              lastRead'.fuseChecks = 1
         ]_vars

\* with the 11 dB entry populated, a read at 2.5 dB found the fuse check
\* failing: it returned that error, characterized nothing and left the 2.5 dB
\* entry empty
C17_Witness ==
    /\ lastRead.kind = "read"
    /\ lastRead.atten = 1
    /\ lastRead.fuseChecks = 1
    /\ lastRead.fuseRes = Esp.ERR_NOT_SUPPORTED
    /\ lastRead.outcome = "Other"
    /\ lastRead.value = Esp.ERR_NOT_SUPPORTED
    /\ lastRead.charCalls = 0
    /\ adc.cal_characteristics.entries[3].some
    /\ ~adc.cal_characteristics.entries[1].some

\* C18: a read whose raw acquisition reports busy or any other failure has no
\* effect on the handle: it checks no fuse, characterizes nothing (so every
\* cache entry stays as it was), converts nothing and returns WouldBlock for
\* busy and a hard error otherwise.
C18_FailedAcquisitionHasNoEffect ==
    (lastRead.kind = "read" /\ lastRead.rawRes # Esp.OK) =>
        /\ lastRead.fuseChecks = 0
        /\ lastRead.charCalls = 0
        /\ lastRead.conv = "none"
        /\ lastRead.outcome = IF lastRead.rawRes = Esp.ERR_INVALID_STATE
                              THEN "WouldBlock" ELSE "Other"

\* C19: for every raw sample in 0 .. MAX_READING, every attenuation and every
\* chip, the linear conversion's product raw * max_mv stays below 2^32, its
\* result is at most max_mv, is not smaller than the result for the next lower
\* sample, and fits in 16 bits, so the narrowing to u16 loses nothing.
C19_LinearConversionInRange ==
    (lastRead.kind = "raw_to_voltage" /\ lastRead.conv = "linear") =>
        LET raw == lastRead.measurement
            max_mv == get_max_mv(chip, lastRead.atten)
            product == raw * max_mv
        IN /\ raw \in 0 .. MAX_READING(chip)
           /\ product \div 65536 < 65536
           /\ lastRead.value = product \div MAX_READING(chip)
           /\ lastRead.value < 65536
           /\ lastRead.value <= max_mv
           /\ raw < MAX_READING(chip) =>
                  lastRead.value <=
                      raw_to_voltage(adc, chip, raw + 1, lastRead.atten, Esp.OK, 0).value

\* the top sample of esp32s2 at 11 dB, the largest product, converted to 2500 mV
C19_Witness ==
    /\ lastRead.kind = "raw_to_voltage"
    /\ lastRead.conv = "linear"
    /\ chip = "esp32s2"
    /\ lastRead.atten = 3
    /\ lastRead.measurement = 8191
    /\ lastRead.value = 2500

====
